---- MODULE Spec2Model ----
(***************************************************************************)
(* A model of fake-api.js: an Express service holding one in-memory array  *)
(* of todo records (`todos`) and one handler per (verb, path) pair.        *)
(*                                                                         *)
(* JavaScript values are modelled as tagged records [t, s, n]:             *)
(*   t = "undefined" | "null" | "boolean" | "number" | "nan" | "string"    *)
(*   s = the characters of a string (a sequence of one-character strings)  *)
(*   n = the integer of a number, or 1/0 for the booleans true/false       *)
(* so that parseInt, Boolean(), truthiness, trim() and === are computed   *)
(* as the JavaScript engine computes them.                                 *)
(***************************************************************************)
EXTENDS Integers, Sequences, FiniteSets, TLC

\* todos:   the array `todos`, the service's only state
\* res:     the response to the last request served
\* everIds: history: every id a record of the store has had so far
\* nreq:    history: the number of requests served so far
\* batch:    history: the requests that have arrived at the server
\* pending:  the requests that have arrived and whose handler has not begun
\* inflight: the handlers between their lookup and their write, each with
\*           the request and the index its lookup returned
VARIABLES todos, res, everIds, nreq, batch, pending, inflight

vars == <<todos, res, everIds, nreq, batch, pending, inflight>>

(***************************************************************************)
(* Bounds of the exploration.                                              *)
(***************************************************************************)
\* Number of requests served in one behaviour.
MaxRequests == 2
\* Path ids "1" .. MaxPathId are sent by clients (besides unparsable ones).
MaxPathId == 6
\* Number of requests that arrive concurrently.
MaxBatch == 2

----------------------------------------------------------------------------
(***************************************************************************)
(* JavaScript values.                                                      *)
(***************************************************************************)
Undefined == [t |-> "undefined", s |-> <<>>, n |-> 0]
Null == [t |-> "null", s |-> <<>>, n |-> 0]
NaN == [t |-> "nan", s |-> <<>>, n |-> 0]
Num(k) == [t |-> "number", s |-> <<>>, n |-> k]
Str(chars) == [t |-> "string", s |-> chars, n |-> 0]
Bool(b) == [t |-> "boolean", s |-> <<>>, n |-> IF b THEN 1 ELSE 0]
\* A JSON object whose toString property is not a function, as express.json()
\* parses {"toString": 1}: converting it to a string throws.
ObjectNoToString == [t |-> "object", s |-> <<>>, n |-> 0]
\* The abrupt completion of an operation that throws instead of returning.
Thrown == [t |-> "throw", s |-> <<>>, n |-> 0]

\* x === y on numbers: NaN is equal to nothing, itself included.
StrictEq(x, y) == x.t = "number" /\ y.t = "number" /\ x.n = y.n

\* ToBoolean: undefined, null, false, 0, NaN and "" are falsy.
Truthy(v) ==
    CASE v.t = "undefined" -> FALSE
      [] v.t = "null" -> FALSE
      [] v.t = "nan" -> FALSE
      [] v.t = "boolean" -> v.n = 1
      [] v.t = "number" -> v.n # 0
      [] v.t = "string" -> v.s # <<>>
      [] v.t = "object" -> TRUE

\* Boolean(v)
ToBoolean(v) == Truthy(v)

\* A character is a one-character string; a character that cannot be written
\* in a string is the name of its code point, "U+" and four hexadecimal
\* digits.
\* The white space and line terminators trim() and parseInt strip: tab, line
\* feed, vertical tab, form feed, carriage return, space, no-break space,
\* the Unicode space separators, line and paragraph separator, and the byte
\* order mark.  The string after " " holds the no-break space itself.
WhiteSpace ==
    {"\t", "\n", "U+000B", "\f", "\r", " ", " ", "U+1680",
     "U+2000", "U+2001", "U+2002", "U+2003", "U+2004", "U+2005", "U+2006",
     "U+2007", "U+2008", "U+2009", "U+200A", "U+2028", "U+2029", "U+202F",
     "U+205F", "U+3000", "U+FEFF"}
Digits == <<"0", "1", "2", "3", "4", "5", "6", "7", "8", "9">>
IsDigit(c) == \E i \in 1..Len(Digits) : Digits[i] = c
DigitVal(c) == (CHOOSE i \in 1..Len(Digits) : Digits[i] = c) - 1

\* The digits of radix 16, in lower and in upper case.
HexDigits ==
    <<"0", "1", "2", "3", "4", "5", "6", "7", "8", "9", "a", "b", "c", "d", "e", "f">>
HexDigitsUpper ==
    <<"0", "1", "2", "3", "4", "5", "6", "7", "8", "9", "A", "B", "C", "D", "E", "F">>
IsHexDigit(c) == \E i \in 1..Len(HexDigits) : HexDigits[i] = c \/ HexDigitsUpper[i] = c
HexDigitVal(c) ==
    (CHOOSE i \in 1..Len(HexDigits) : HexDigits[i] = c \/ HexDigitsUpper[i] = c) - 1

RECURSIVE TrimStart(_)
TrimStart(chars) ==
    IF chars # <<>> /\ Head(chars) \in WhiteSpace
    THEN TrimStart(Tail(chars))
    ELSE chars

RECURSIVE TrimEnd(_)
TrimEnd(chars) ==
    IF chars # <<>> /\ chars[Len(chars)] \in WhiteSpace
    THEN TrimEnd(SubSeq(chars, 1, Len(chars) - 1))
    ELSE chars

\* String.prototype.trim on the characters of a string.
Trim(chars) == TrimEnd(TrimStart(chars))

\* The longest prefix of decimal digits.
RECURSIVE DigitPrefix(_)
DigitPrefix(chars) ==
    IF chars # <<>> /\ IsDigit(Head(chars))
    THEN <<Head(chars)>> \o DigitPrefix(Tail(chars))
    ELSE <<>>

RECURSIVE DigitsValue(_)
DigitsValue(ds) ==
    IF ds = <<>> THEN 0
    ELSE 10 * DigitsValue(SubSeq(ds, 1, Len(ds) - 1)) + DigitVal(ds[Len(ds)])

\* The longest prefix of hexadecimal digits.
RECURSIVE HexDigitPrefix(_)
HexDigitPrefix(chars) ==
    IF chars # <<>> /\ IsHexDigit(Head(chars))
    THEN <<Head(chars)>> \o HexDigitPrefix(Tail(chars))
    ELSE <<>>

RECURSIVE HexDigitsValue(_)
HexDigitsValue(ds) ==
    IF ds = <<>> THEN 0
    ELSE 16 * HexDigitsValue(SubSeq(ds, 1, Len(ds) - 1)) + HexDigitVal(ds[Len(ds)])

\* The string starts with 0x or 0X: parseInt without a radix reads what
\* follows in radix 16.
HasHexPrefix(chars) ==
    Len(chars) >= 2 /\ chars[1] = "0" /\ chars[2] \in {"x", "X"}

\* parseInt on a string, no radix given: leading white space is skipped, then
\* an optional sign, then a 0x or 0X prefix selects radix 16, then the longest
\* run of digits of the radix is read; no digit at all gives NaN.
ParseIntStr(chars) ==
    LET t == TrimStart(chars)
        neg == t # <<>> /\ Head(t) = "-"
        u == IF t # <<>> /\ Head(t) \in {"+", "-"} THEN Tail(t) ELSE t
        hex == HasHexPrefix(u)
        ds == IF hex THEN HexDigitPrefix(SubSeq(u, 3, Len(u))) ELSE DigitPrefix(u)
        value == IF hex THEN HexDigitsValue(ds) ELSE DigitsValue(ds)
    IN  IF ds = <<>> THEN NaN
        ELSE Num(IF neg THEN 0 - value ELSE value)

\* Variant of ParseInt with a default: parseInt(v) || 1.
ParseIntOrOne(v) ==
    CASE v.t = "string" ->
             (IF ParseIntStr(v.s).t = "number" /\ ParseIntStr(v.s).n # 0
              THEN ParseIntStr(v.s) ELSE Num(1))
      [] v.t = "number" -> (IF v.n # 0 THEN v ELSE Num(1))
      [] OTHER -> Num(1)

\* parseInt(v): v is converted to a string first, so an integer parses to
\* itself and undefined, null, true/false and NaN give NaN; an object that
\* cannot be converted makes parseInt throw a TypeError.
ParseInt(v) ==
    CASE v.t = "string" -> ParseIntStr(v.s)
      [] v.t = "number" -> v
      [] v.t = "object" -> Thrown
      [] OTHER -> NaN

\* The message of the TypeError parseInt throws on such an object.
ToPrimitiveErrorMessage == "Cannot convert object to primitive value"

\* The decimal numeral of a positive integer, as a client writes it in a URL.
RECURSIVE Numeral(_)
Numeral(k) ==
    IF k < 10 THEN <<Digits[k + 1]>>
    ELSE Numeral(k \div 10) \o <<Digits[(k % 10) + 1]>>

\* Math.max(...xs, 0): NaN as soon as one argument is NaN.
RECURSIVE MaxOf(_)
MaxOf(xs) ==
    IF xs = <<>> THEN 0
    ELSE LET m == MaxOf(Tail(xs)) IN IF Head(xs) > m THEN Head(xs) ELSE m

MathMax0(xs) ==
    IF \E i \in 1..Len(xs) : xs[i].t # "number" THEN NaN
    ELSE Num(MaxOf([i \in 1..Len(xs) |-> xs[i].n]))

\* x + 1 on a JavaScript number.
PlusOne(x) == IF x.t = "number" THEN Num(x.n + 1) ELSE NaN

\* Array.prototype.slice(0, end)
Slice0(xs, end) ==
    LET k == IF end < 0 THEN (IF Len(xs) + end < 0 THEN 0 ELSE Len(xs) + end)
             ELSE (IF end > Len(xs) THEN Len(xs) ELSE end)
    IN  SubSeq(xs, 1, k)

\* todos.filter(t => t.userId === userId)
FilterByUserId(xs, userId) ==
    LET Keep(t) == StrictEq(t.userId, userId) IN SelectSeq(xs, Keep)

\* todos.findIndex(t => t.id === id), 1-based; 0 stands for JavaScript's -1.
FindIndexById(xs, id) ==
    IF \E i \in 1..Len(xs) : StrictEq(xs[i].id, id)
    THEN CHOOSE i \in 1..Len(xs) :
             StrictEq(xs[i].id, id) /\ \A j \in 1..(i - 1) : ~StrictEq(xs[j].id, id)
    ELSE 0

\* Array.prototype.splice(i, 1) on the array itself.
Splice1(xs, i) == SubSeq(xs, 1, i - 1) \o SubSeq(xs, i + 1, Len(xs))

\* Variant of MapIds numbering the positions: todos.map((t, i) => i + 1).
MapIdsByPosition(xs) == [i \in 1..Len(xs) |-> Num(i)]

\* todos.map(t => t.id)
MapIds(xs) == [i \in 1..Len(xs) |-> xs[i].id]

----------------------------------------------------------------------------
(***************************************************************************)
(* The store and the responses.                                            *)
(***************************************************************************)
\* let todos = [ ... ]: the five seed records.
SeedTodos ==
    <<
       [userId |-> Num(1), id |-> Num(1), completed |-> FALSE,
        title |-> <<"d", "e", "l", "e", "c", "t", "u", "s", " ", "a", "u", "t", " ", "a", "u", "t", "e", "m">>],
       [userId |-> Num(1), id |-> Num(2), completed |-> TRUE,
        title |-> <<"q", "u", "i", "s", " ", "u", "t", " ", "n", "a", "m", " ", "f", "a", "c", "i", "l", "i", "s">>],
       [userId |-> Num(1), id |-> Num(3), completed |-> FALSE,
        title |-> <<"f", "u", "g", "i", "a", "t", " ", "v", "e", "n", "i", "a", "m", " ", "m", "i", "n", "u", "s">>],
       [userId |-> Num(1), id |-> Num(4), completed |-> TRUE,
        title |-> <<"e", "t", " ", "p", "o", "r", "r", "o", " ", "t", "e", "m", "p", "o", "r", "a">>],
       [userId |-> Num(2), id |-> Num(5), completed |-> FALSE,
        title |-> <<"l", "a", "b", "o", "r", "i", "o", "s", "a", "m", " ", "m", "o", "l", "l", "i", "t", "i", "a">>]
    >>

\* A response: the status code and the fields of the JSON body that carry
\* data (timestamps and the static endpoint directory are left out).
\*   message: the body's `message`, or its `error` on a 4xx/5xx
\*   detail:  the 500 body's `message` (err.message)
\*   todo:    <<r>> when the body carries one record, <<>> otherwise
\*   list:    the array body of GET /todos
\*   ids:     available_ids
\*   id:      the parsed id echoed by a 404
\*   count:   remaining_todos / current_todos_count / total_todos
Response(status, message) ==
    [status |-> status, message |-> message, detail |-> "", todo |-> <<>>,
     list |-> <<>>, ids |-> <<>>, id |-> Undefined, count |-> 0]

\* Before the first request there is no response.
NoResponse == Response(0, "")

\* What a handler leaves behind: the store and the response sent.
Outcome(s, r) == [todos |-> s, res |-> r]

\* err.message of the TypeError raised by title.trim() on a non-string.
TrimErrorMessage(v) ==
    IF v.t \in {"null", "undefined"}
    THEN "Cannot read properties of null (reading 'trim')"
    ELSE "title.trim is not a function"

\* The error-handling middleware: 500 with the failure's message.
ErrorHandler(message) ==
    [Response(500, "Internal Server Error") EXCEPT !.detail = message]

\* The 404 body shared by PUT, PATCH, DELETE, toggle and complete.
TodoNotFound(id) == [Response(404, "Todo not found") EXCEPT !.id = id]

----------------------------------------------------------------------------
(***************************************************************************)
(* The handlers, each a function of the store and the request's inputs.    *)
(***************************************************************************)
\* Variant of GetTodos cutting the page out of the array in place,
\* filteredTodos.splice(0, limit): without a userId filter the array is the
\* store itself, which loses the records returned.
GetTodosSplice(s, q) ==
    LET parsed == ParseInt(q.limit)
        limit == IF Truthy(parsed) THEN parsed ELSE Num(Len(s))
        userId == IF Truthy(q.userId) THEN ParseInt(q.userId) ELSE Null
        filteredTodos == IF Truthy(userId) THEN FilterByUserId(s, userId) ELSE s
        page == Slice0(filteredTodos, limit.n)
    IN  Outcome(IF Truthy(userId) THEN s ELSE SubSeq(s, Len(page) + 1, Len(s)),
                [Response(200, "") EXCEPT !.list = page])

\* app.get('/todos'): q.limit and q.userId are query strings or undefined.
GetTodos(s, q) ==
    LET parsed == ParseInt(q.limit)
        limit == IF Truthy(parsed) THEN parsed ELSE Num(Len(s))
        userId == IF Truthy(q.userId) THEN ParseInt(q.userId) ELSE Null
        filteredTodos == IF Truthy(userId) THEN FilterByUserId(s, userId) ELSE s
    IN  Outcome(s, [Response(200, "") EXCEPT !.list = Slice0(filteredTodos, limit.n)])

\* app.get('/todos/:id')
GetTodo(s, p) ==
    LET id == ParseInt(Str(p))
        i == FindIndexById(s, id)
    IN  IF i # 0
        THEN Outcome(s, [Response(200, "") EXCEPT !.todo = <<s[i]>>])
        ELSE Outcome(s, [Response(404, "Todo not found") EXCEPT
                             !.id = id, !.ids = MapIds(s)])

\* Variant of NewId without the increment: Math.max(...ids, 0).
NewIdWithoutIncrement(s) == MathMax0([i \in 1..Len(s) |-> s[i].id])

\* Variant of NewId counting the records: todos.length + 1.
NewIdByLength(s) == Num(Len(s) + 1)

\* const newId = Math.max(...todos.map(t => t.id), 0) + 1
NewId(s) == PlusOne(MathMax0(MapIds(s)))

\* Variant of PostTodo putting the new record first: todos.unshift(newTodo).
PostTodoUnshift(s, body) ==
    LET title == body.title
        completed == IF body.completed = Undefined THEN Bool(FALSE) ELSE body.completed
        userId == IF body.userId = Undefined THEN Num(1) ELSE body.userId
        newId == NewId(s)
    IN  IF ~Truthy(title)
        THEN Outcome(s, Response(400, "Title is required"))
        ELSE IF ParseInt(userId) = Thrown
        THEN Outcome(s, ErrorHandler(ToPrimitiveErrorMessage))
        ELSE IF title.t # "string"
        THEN Outcome(s, ErrorHandler(TrimErrorMessage(title)))
        ELSE LET newTodo == [userId |-> ParseInt(userId), id |-> newId,
                             title |-> Trim(title.s),
                             completed |-> ToBoolean(completed)]
             IN  Outcome(<<newTodo>> \o s,
                         [Response(201, "Todo created successfully") EXCEPT
                              !.todo = <<newTodo>>])

\* app.post('/todos'): the object literal evaluates parseInt(userId), then
\* title.trim() (which throws on a non-string), then Boolean(completed);
\* push comes last.
PostTodo(s, body) ==
    LET title == body.title
        completed == IF body.completed = Undefined THEN Bool(FALSE) ELSE body.completed
        userId == IF body.userId = Undefined THEN Num(1) ELSE body.userId
        newId == NewId(s)
    IN  IF ~Truthy(title)
        THEN Outcome(s, Response(400, "Title is required"))
        ELSE IF ParseInt(userId) = Thrown
        THEN Outcome(s, ErrorHandler(ToPrimitiveErrorMessage))
        ELSE IF title.t # "string"
        THEN Outcome(s, ErrorHandler(TrimErrorMessage(title)))
        ELSE LET newTodo == [userId |-> ParseInt(userId), id |-> newId,
                             title |-> Trim(title.s),
                             completed |-> ToBoolean(completed)]
             IN  Outcome(Append(s, newTodo),
                         [Response(201, "Todo created successfully") EXCEPT
                              !.todo = <<newTodo>>])

\* Variant of DeleteTodo testing the index for truthiness, `if (todoIndex)`:
\* JavaScript's -1 (not found) is truthy and splice(-1, 1) removes the last
\* record, while index 0 (the first record) is falsy.
DeleteTodoTruthyIndex(s, p) ==
    LET id == ParseInt(Str(p))
        todoIndex == FindIndexById(s, id)
        at == IF todoIndex = 0 THEN Len(s) ELSE todoIndex
    IN  IF todoIndex # 1 /\ s # <<>>
        THEN LET rest == Splice1(s, at)
             IN  Outcome(rest,
                         [Response(200, "Todo deleted successfully") EXCEPT
                              !.todo = <<s[at]>>, !.count = Len(rest)])
        ELSE Outcome(s, TodoNotFound(id))

\* app.delete('/todos/:id')
DeleteTodo(s, p) ==
    LET id == ParseInt(Str(p))
        todoIndex == FindIndexById(s, id)
    IN  IF todoIndex # 0
        THEN LET rest == Splice1(s, todoIndex)
             IN  Outcome(rest,
                         [Response(200, "Todo deleted successfully") EXCEPT
                              !.todo = <<s[todoIndex]>>, !.count = Len(rest)])
        ELSE Outcome(s, TodoNotFound(id))

\* Variant of PutTodo as a full replacement: completed is assigned whether
\* or not the body carries it (Boolean(undefined) is false).
PutTodoReplace(s, p, body) ==
    LET id == ParseInt(Str(p))
        todoIndex == FindIndexById(s, id)
        title == body.title
        completed == body.completed
        userId == body.userId
        s1 == IF title # Undefined
              THEN [s EXCEPT ![todoIndex].title = Trim(title.s)]
              ELSE s
        s2 == [s1 EXCEPT ![todoIndex].completed = ToBoolean(completed)]
        s3 == IF userId # Undefined
              THEN [s2 EXCEPT ![todoIndex].userId = ParseInt(userId)]
              ELSE s2
    IN  IF todoIndex = 0
        THEN Outcome(s, TodoNotFound(id))
        ELSE IF title # Undefined /\ title.t # "string"
        THEN Outcome(s, ErrorHandler(TrimErrorMessage(title)))
        ELSE IF userId # Undefined /\ ParseInt(userId) = Thrown
        THEN Outcome(s2, ErrorHandler(ToPrimitiveErrorMessage))
        ELSE Outcome(s3, [Response(200, "Todo updated successfully") EXCEPT
                              !.todo = <<s3[todoIndex]>>])

\* app.put('/todos/:id'): the three assignments run in order on
\* todos[todoIndex]; title.trim() throws before its assignment, and
\* parseInt(userId) throws after title and completed have been written.
PutTodo(s, p, body) ==
    LET id == ParseInt(Str(p))
        todoIndex == FindIndexById(s, id)
        title == body.title
        completed == body.completed
        userId == body.userId
        s1 == IF title # Undefined
              THEN [s EXCEPT ![todoIndex].title = Trim(title.s)]
              ELSE s
        s2 == IF completed # Undefined
              THEN [s1 EXCEPT ![todoIndex].completed = ToBoolean(completed)]
              ELSE s1
        s3 == IF userId # Undefined
              THEN [s2 EXCEPT ![todoIndex].userId = ParseInt(userId)]
              ELSE s2
    IN  IF todoIndex = 0
        THEN Outcome(s, TodoNotFound(id))
        ELSE IF title # Undefined /\ title.t # "string"
        THEN Outcome(s, ErrorHandler(TrimErrorMessage(title)))
        ELSE IF userId # Undefined /\ ParseInt(userId) = Thrown
        THEN Outcome(s2, ErrorHandler(ToPrimitiveErrorMessage))
        ELSE Outcome(s3, [Response(200, "Todo updated successfully") EXCEPT
                              !.todo = <<s3[todoIndex]>>])

\* todos.find(t => t.id === id): the position of the object found (the
\* handlers write through this reference); 0 stands for undefined.
FindById(xs, id) ==
    LET hits == {i \in 1..Len(xs) : StrictEq(xs[i].id, id)}
    IN  IF hits = {} THEN 0 ELSE CHOOSE i \in hits : \A j \in hits : i <= j

\* The store after the handler wrote `todo` through the reference `ref`.
WriteThrough(s, ref, todo) == [i \in 1..Len(s) |-> IF i = ref THEN todo ELSE s[i]]

\* app.patch('/todos/:id'): the same three assignments, on the object
\* returned by find, failing at the same places.
PatchTodo(s, p, body) ==
    LET id == ParseInt(Str(p))
        ref == FindById(s, id)
        title == body.title
        completed == body.completed
        userId == body.userId
        t1 == IF title # Undefined
              THEN [s[ref] EXCEPT !.title = Trim(title.s)]
              ELSE s[ref]
        t2 == IF completed # Undefined
              THEN [t1 EXCEPT !.completed = ToBoolean(completed)]
              ELSE t1
        t3 == IF userId # Undefined
              THEN [t2 EXCEPT !.userId = ParseInt(userId)]
              ELSE t2
    IN  IF ref = 0
        THEN Outcome(s, TodoNotFound(id))
        ELSE IF title # Undefined /\ title.t # "string"
        THEN Outcome(s, ErrorHandler(TrimErrorMessage(title)))
        ELSE IF userId # Undefined /\ ParseInt(userId) = Thrown
        THEN Outcome(WriteThrough(s, ref, t2), ErrorHandler(ToPrimitiveErrorMessage))
        ELSE Outcome(WriteThrough(s, ref, t3),
                     [Response(200, "Todo partially updated") EXCEPT !.todo = <<t3>>])

\* Variant of ToggleTodo that marks the record done instead of negating:
\* todo.completed = true.
ToggleTodoSetTrue(s, p) ==
    LET id == ParseInt(Str(p))
        ref == FindById(s, id)
    IN  IF ref # 0
        THEN LET todo == [s[ref] EXCEPT !.completed = TRUE]
             IN  Outcome(WriteThrough(s, ref, todo),
                         [Response(200, "Todo completed") EXCEPT !.todo = <<todo>>])
        ELSE Outcome(s, TodoNotFound(id))

\* app.post('/todos/:id/toggle')
ToggleTodo(s, p) ==
    LET id == ParseInt(Str(p))
        ref == FindById(s, id)
    IN  IF ref # 0
        THEN LET todo == [s[ref] EXCEPT !.completed = ~s[ref].completed]
             IN  Outcome(WriteThrough(s, ref, todo),
                         [Response(200, IF todo.completed THEN "Todo completed"
                                        ELSE "Todo uncompleted") EXCEPT
                              !.todo = <<todo>>])
        ELSE Outcome(s, TodoNotFound(id))

\* app.post('/todos/:id/complete'): body.completed defaults to true.
CompleteTodo(s, p, body) ==
    LET id == ParseInt(Str(p))
        completed == IF body.completed = Undefined THEN Bool(TRUE) ELSE body.completed
        ref == FindById(s, id)
    IN  IF ref # 0
        THEN LET todo == [s[ref] EXCEPT !.completed = ToBoolean(completed)]
             IN  Outcome(WriteThrough(s, ref, todo),
                         [Response(200, IF todo.completed
                                        THEN "Todo marked as completed"
                                        ELSE "Todo marked as incomplete") EXCEPT
                              !.todo = <<todo>>])
        ELSE Outcome(s, TodoNotFound(id))

\* app.get('/status')
GetStatus(s) == Outcome(s, [Response(200, "online") EXCEPT !.count = Len(s)])

\* app.get('/')
GetRoot(s) == Outcome(s, [Response(200, "Todos API Server") EXCEPT !.count = Len(s)])

\* app.use('*'): any unmatched route.
NotFoundHandler(s) == Outcome(s, Response(404, "Endpoint not found"))

----------------------------------------------------------------------------
(***************************************************************************)
(* Requests.                                                               *)
(***************************************************************************)
\* Path ids clients send: decimal numerals, a string with no number in it,
\* and a hexadecimal numeral after a tab (/todos/%090x2).
PathIds ==
    {Numeral(k) : k \in 1..MaxPathId}
    \cup {<<"a", "b", "c">>, <<"\t", "0", "x", "2">>}

\* A JSON body: each of title, completed, userId is a value or is absent.
Body(title, completed, userId) ==
    [title |-> title, completed |-> completed, userId |-> userId]

\* Bodies clients send: every subset of the three fields with values the
\* handlers accept (a padded title, a userId with text after its digits), and
\* the values the handlers coerce, reject or fail on.
Bodies ==
    {Body(t, c, u) : t \in {Undefined, Str(<<" ", "x", " ">>)},
                     c \in {Undefined, Bool(TRUE)},
                     u \in {Undefined, Str(<<"2", "x">>)}}
    \cup {Body(Str(<<>>), Undefined, Undefined),
          Body(Str(<<" ", "\t">>), Undefined, Undefined),
          Body(Null, Undefined, Undefined),
          Body(Num(5), Bool(TRUE), Str(<<"2">>)),
          Body(Str(<<"y">>), Num(0), Str(<<"a", "b", "c">>)),
          Body(Undefined, Bool(TRUE), ObjectNoToString)}

\* Bodies of POST /todos/:id/complete, which reads `completed` alone.
CompleteBodies ==
    {Body(Undefined, c, Undefined) : c \in {Undefined, Bool(FALSE), Str(<<"n", "o">>)}}

\* Query strings of GET /todos.
Queries ==
    [limit : {Undefined, Str(<<"0">>), Str(<<"2">>)},
     userId : {Undefined, Str(<<"0">>), Str(<<"1">>)}]

\* The ids of the records of a store, as a set.
IdsOf(s) == {s[i].id : i \in 1..Len(s)}

\* A request is about to be served: the behaviour has not used up its
\* requests.
Serving == nreq < MaxRequests

\* A handler completes: the store is replaced by the handler's outcome and
\* the response is sent; everIds records every id a record of the store has
\* ever had.
Respond(o) ==
    /\ todos' = o.todos
    /\ res' = o.res
    /\ everIds' = everIds \cup IdsOf(o.todos)
    /\ nreq' = nreq + 1

\* One request served to completion, from its arrival to its response.
Serve(o) ==
    /\ Respond(o)
    /\ UNCHANGED <<batch, pending, inflight>>

ListRequest ==
    Serving /\ \E q \in Queries : \E o \in {GetTodos(todos, q)} : Serve(o)
GetRequest ==
    Serving /\ \E p \in PathIds : \E o \in {GetTodo(todos, p)} : Serve(o)
PostRequest ==
    Serving /\ \E b \in Bodies : \E o \in {PostTodo(todos, b)} : Serve(o)
DeleteRequest ==
    Serving /\ \E p \in PathIds : \E o \in {DeleteTodo(todos, p)} : Serve(o)
PutRequest ==
    Serving /\ \E p \in PathIds, b \in Bodies : \E o \in {PutTodo(todos, p, b)} : Serve(o)
PatchRequest ==
    Serving /\ \E p \in PathIds, b \in Bodies : \E o \in {PatchTodo(todos, p, b)} : Serve(o)
ToggleRequest ==
    Serving /\ \E p \in PathIds : \E o \in {ToggleTodo(todos, p)} : Serve(o)
CompleteRequest ==
    Serving /\ \E p \in PathIds, b \in CompleteBodies : \E o \in {CompleteTodo(todos, p, b)} : Serve(o)
StatusRequest ==
    Serving /\ \E o \in {GetStatus(todos)} : Serve(o)
RootRequest ==
    Serving /\ \E o \in {GetRoot(todos)} : Serve(o)
UnmatchedRequest ==
    Serving /\ \E o \in {NotFoundHandler(todos)} : Serve(o)

Init ==
    /\ todos = SeedTodos
    /\ res = NoResponse
    /\ everIds = IdsOf(SeedTodos)
    /\ nreq = 0
    /\ batch = {}
    /\ pending = {}
    /\ inflight = {}

Next ==
    \/ ListRequest
    \/ GetRequest
    \/ PostRequest
    \/ DeleteRequest
    \/ PutRequest
    \/ PatchRequest
    \/ ToggleRequest
    \/ CompleteRequest
    \/ StatusRequest
    \/ RootRequest
    \/ UnmatchedRequest

Spec == Init /\ [][Next]_vars

-----------------------------------------------------------------------------
(***************************************************************************)
(* Requests arriving concurrently.  The handlers of PUT /todos/:id and     *)
(* DELETE /todos/:id are taken in their two steps, the lookup (findIndex)  *)
(* and the write (the assignments, or splice) with the response.           *)
(***************************************************************************)
\* A request without a body.
NoBody == Body(Undefined, Undefined, Undefined)

\* Bodies of the concurrent PUT requests: one that is written, one whose
\* title makes title.trim() fail.
ConcurrentBodies ==
    {Body(Str(<<" ", "x", " ">>), Bool(TRUE), Str(<<"2">>)),
     Body(Num(5), Bool(TRUE), Str(<<"2">>))}

\* The requests that may arrive together.
ConcurrentRequests ==
    {[op |-> "DELETE", p |-> p, body |-> NoBody] : p \in PathIds}
    \cup {[op |-> "PUT", p |-> p, body |-> b] : p \in PathIds, b \in ConcurrentBodies}

\* Variant of StackEmpty for handlers that would yield between findIndex and
\* the write (an await there): a callback may begin at any time.
StackEmptyAlways == TRUE

\* The handlers are synchronous functions: from findIndex to res.json there
\* is no await and no callback, so the event loop begins a handler only
\* when no other handler is between its lookup and its write.
StackEmpty == inflight = {}

\* The failure of writing a field of todos[todoIndex] when that is undefined.
SetOfUndefinedMessage(body) ==
    IF body.title # Undefined
    THEN "Cannot set properties of undefined (setting 'title')"
    ELSE IF body.completed # Undefined
    THEN "Cannot set properties of undefined (setting 'completed')"
    ELSE "Cannot set properties of undefined (setting 'userId')"

\* app.put('/todos/:id') after its lookup: the assignments on
\* todos[todoIndex] in order, then the response.  Each right-hand side
\* (title.trim(), parseInt(userId)) is evaluated before its write.
PutAt(s, todoIndex, body) ==
    LET title == body.title
        completed == body.completed
        userId == body.userId
        s1 == IF title # Undefined
              THEN [s EXCEPT ![todoIndex].title = Trim(title.s)]
              ELSE s
        s2 == IF completed # Undefined
              THEN [s1 EXCEPT ![todoIndex].completed = ToBoolean(completed)]
              ELSE s1
        s3 == IF userId # Undefined
              THEN [s2 EXCEPT ![todoIndex].userId = ParseInt(userId)]
              ELSE s2
    IN  IF title # Undefined /\ title.t # "string"
        THEN Outcome(s, ErrorHandler(TrimErrorMessage(title)))
        ELSE IF todoIndex > Len(s)
        THEN IF body = NoBody
             THEN Outcome(s, Response(200, "Todo updated successfully"))
             ELSE IF title = Undefined /\ completed = Undefined /\ ParseInt(userId) = Thrown
             THEN Outcome(s, ErrorHandler(ToPrimitiveErrorMessage))
             ELSE Outcome(s, ErrorHandler(SetOfUndefinedMessage(body)))
        ELSE IF userId # Undefined /\ ParseInt(userId) = Thrown
        THEN Outcome(s2, ErrorHandler(ToPrimitiveErrorMessage))
        ELSE Outcome(s3, [Response(200, "Todo updated successfully") EXCEPT
                              !.todo = <<s3[todoIndex]>>])

\* app.delete('/todos/:id') after its lookup: todos.splice(todoIndex, 1)[0],
\* then the response.  Past the end splice removes nothing and [0] is
\* undefined.
DeleteAt(s, todoIndex) ==
    LET inside == todoIndex <= Len(s)
        rest == IF inside THEN Splice1(s, todoIndex) ELSE s
        deletedTodo == IF inside THEN <<s[todoIndex]>> ELSE <<>>
    IN  Outcome(rest,
                [Response(200, "Todo deleted successfully") EXCEPT
                     !.todo = deletedTodo, !.count = Len(rest)])

\* A request arrives at the server.
Arrive ==
    /\ Cardinality(batch) < MaxBatch
    /\ \E r \in ConcurrentRequests \ batch :
           /\ batch' = batch \cup {r}
           /\ pending' = pending \cup {r}
    /\ UNCHANGED <<todos, res, everIds, nreq, inflight>>

\* The event loop begins the handler of a pending request: parseInt and
\* findIndex.  A handler that finds nothing answers 404 and returns.
Lookup ==
    /\ StackEmpty
    /\ \E r \in pending :
           LET id == ParseInt(Str(r.p))
               todoIndex == FindIndexById(todos, id)
           IN  /\ pending' = pending \ {r}
               /\ IF todoIndex = 0
                  THEN /\ Respond(Outcome(todos, TodoNotFound(id)))
                       /\ UNCHANGED inflight
                  ELSE /\ inflight' = inflight \cup {[req |-> r, todoIndex |-> todoIndex]}
                       /\ UNCHANGED <<todos, res, everIds, nreq>>
    /\ UNCHANGED batch

\* A handler past its lookup writes at the index it holds and responds.
Mutate ==
    /\ \E h \in inflight :
           /\ inflight' = inflight \ {h}
           /\ \E o \in {IF h.req.op = "DELETE"
                         THEN DeleteAt(todos, h.todoIndex)
                         ELSE PutAt(todos, h.todoIndex, h.req.body)} : Respond(o)
    /\ UNCHANGED <<batch, pending>>

ConcurrentInit ==
    /\ todos = SeedTodos
    /\ res = NoResponse
    /\ everIds = IdsOf(SeedTodos)
    /\ nreq = 0
    /\ batch = {}
    /\ pending = {}
    /\ inflight = {}

ConcurrentNext ==
    \/ Arrive
    \/ Lookup
    \/ Mutate

ConcurrentSpec == ConcurrentInit /\ [][ConcurrentNext]_vars

----------------------------------------------------------------------------
(***************************************************************************)
(* Properties.                                                             *)
(***************************************************************************)
\* The record of store s whose id is `id`, as a set (empty when absent).
RecordsWithId(s, id) == {i \in 1..Len(s) : s[i].id = id}

\* The store s without the records whose id is `id`, order kept.
Without(s, id) == LET Other(t) == t.id # id IN SelectSeq(s, Other)

\* C1: ids are never reused: the id POST /todos assigns is never the id of
\* a record that was in the store earlier (seeded or created) and has been
\* deleted since.
C1_IdsNeverReused ==
    [][res'.message = "Todo created successfully"
           => res'.todo[1].id \notin (everIds \ IdsOf(todos))]_vars

\* C2: in every reachable state no two records of the store share an id.
C2_UniqueIds ==
    \A i, j \in 1..Len(todos) : i # j => todos[i].id # todos[j].id

\* C2 witness: a record was created after a seed record had been deleted.
C2_Witness ==
    /\ res.message = "Todo created successfully"
    /\ Len(todos) = Len(SeedTodos)
    /\ \E i \in 1..Len(SeedTodos) : SeedTodos[i].id \notin IdsOf(todos)

\* A title that is missing, empty or white space only.
BlankTitle(title) ==
    \/ title = Undefined
    \/ title.t = "string" /\ \A i \in 1..Len(title.s) : title.s[i] \in WhiteSpace

\* C3: every POST /todos whose title is missing, empty or white space only
\* is answered 400 and leaves the store unchanged, so that no record POST
\* creates has a title that is empty after trimming.
C3_BlankTitleRejected ==
    [][\A b \in Bodies :
           (/\ BlankTitle(b.title)
            /\ todos' = PostTodo(todos, b).todos
            /\ res' = PostTodo(todos, b).res)
           => (res'.status = 400 /\ todos' = todos)]_vars

\* A JavaScript number that is an integer (Number.isInteger): not NaN.
IsInteger(v) == v.t = "number"

\* C4: in every reachable state every record's userId and id are integers.
C4_IntegerIds ==
    \A i \in 1..Len(todos) : IsInteger(todos[i].userId) /\ IsInteger(todos[i].id)

\* C5: DELETE /todos/:id on a stored id answers 200 and removes exactly that
\* record, the others keeping their values and order, after which GET of
\* the id answers 404; on an id not stored it answers 404 and the store is
\* unchanged.
C5_DeleteRemovesExactlyOne ==
    Serving => \A p \in PathIds :
        LET id == ParseInt(Str(p))
            o == DeleteTodo(todos, p)
        IN  IF RecordsWithId(todos, id) # {}
            THEN /\ o.res.status = 200
                 /\ Len(o.todos) = Len(todos) - 1
                 /\ o.todos = Without(todos, id)
                 /\ GetTodo(o.todos, p).res.status = 404
            ELSE /\ o.res.status = 404
                 /\ o.todos = todos

\* C5 witness: a DELETE removed a record, and another DELETE found nothing.
C5_Witness ==
    /\ res.message = "Todo deleted successfully"
    /\ Len(todos) = Len(SeedTodos) - 1
    /\ \E p \in PathIds : DeleteTodo(todos, p).res.status = 404

\* The first k elements of xs (all of them when there are fewer).
FirstN(xs, k) == [i \in 1..(IF k < Len(xs) THEN k ELSE Len(xs)) |-> xs[i]]

\* What the listing contract asks of GET /todos for query q.
ListingContract(s, q) ==
    LET wanted == ParseInt(q.userId)
        Matches(t) == t.userId = wanted
        matching == IF q.userId = Undefined THEN s ELSE SelectSeq(s, Matches)
    IN  IF q.limit = Undefined THEN matching
        ELSE FirstN(matching, ParseInt(q.limit).n)

\* C6: for every integer userId filter and every non-negative integer limit,
\* GET /todos returns, in insertion order, exactly the records whose userId
\* equals the filter (all when absent), cut to the first `limit` of them
\* (all when absent).
C6_ListFilterAndLimit ==
    [][\A q \in Queries :
           (todos' = todos /\ res' = GetTodos(todos, q).res)
           => res'.list = ListingContract(todos, q)]_vars

\* C7: PUT and PATCH /todos/:id leave the same store and the same status for
\* every store, id and body; on a stored id they overwrite only the fields
\* of title, completed, userId present in the body (title trimmed,
\* completed made boolean, userId parsed as an integer), and the id, the
\* absent fields, the position and all other records are unchanged.
C7_PutEqualsPatch ==
    Serving => \A p \in PathIds, b \in Bodies :
        \A hits \in {RecordsWithId(todos, ParseInt(Str(p)))},
           put \in {PutTodo(todos, p, b)}, patch \in {PatchTodo(todos, p, b)} :
            /\ put.todos = patch.todos
            /\ put.res.status = patch.res.status
            /\ hits = {} => put.res.status = 404 /\ put.todos = todos
            /\ hits # {} =>
                 /\ put.res.status \in {200, 500}
                 /\ Len(put.todos) = Len(todos)
                 /\ \A i \in 1..Len(todos) :
                        IF i \in hits
                        THEN /\ put.todos[i].id = todos[i].id
                             /\ b.title = Undefined
                                    => put.todos[i].title = todos[i].title
                             /\ b.completed = Undefined
                                    => put.todos[i].completed = todos[i].completed
                             /\ b.userId = Undefined
                                    => put.todos[i].userId = todos[i].userId
                             /\ put.res.status = 200 =>
                                    /\ b.title # Undefined
                                           => put.todos[i].title = Trim(b.title.s)
                                    /\ b.completed # Undefined
                                           => put.todos[i].completed = Truthy(b.completed)
                                    /\ b.userId # Undefined
                                           => put.todos[i].userId = ParseInt(b.userId)
                        ELSE put.todos[i] = todos[i]

\* C7 witness: an update of title and userId alone was applied: the title
\* arrived with white space around it, and completed kept its value.
C7_Witness ==
    /\ res.message \in {"Todo updated successfully", "Todo partially updated"}
    /\ res.todo[1].title = <<"x">>
    /\ res.todo[1].userId = Num(2)
    /\ \E i \in 1..Len(SeedTodos) :
           /\ SeedTodos[i].id = res.todo[1].id
           /\ SeedTodos[i].completed = res.todo[1].completed
           /\ SeedTodos[i].userId # res.todo[1].userId

\* A title that is a non-empty string.
NonEmptyTitle(title) == title.t = "string" /\ title.s # <<>>

\* The largest of 0 and the integer ids of store s.
MaxIdOrZero(s) ==
    CHOOSE m \in {0} \cup {s[i].id.n : i \in 1..Len(s)} :
        m >= 0 /\ \A i \in 1..Len(s) : s[i].id.n <= m

C9_GetByIdOrAvailableIds ==
    Serving => \A p \in PathIds :
        LET id == ParseInt(Str(p))
            hits == RecordsWithId(todos, id)
            o == GetTodo(todos, p)
        IN  /\ o.todos = todos
            /\ IF hits # {}
               THEN /\ o.res.status = 200
                    /\ \E i \in hits : o.res.todo = <<todos[i]>>
               ELSE /\ o.res.status = 404
                    /\ o.res.ids = [i \in 1..Len(todos) |-> todos[i].id]

\* C9 witness: a GET was answered 404 after a create and a delete had
\* changed the ids in the store.
C9_Witness ==
    /\ res.status = 404
    /\ res.message = "Todo not found"
    /\ res.ids = [i \in 1..Len(todos) |-> todos[i].id]
    /\ Len(res.ids) > 0
    /\ res.ids # [i \in 1..Len(SeedTodos) |-> SeedTodos[i].id]

\* A path id with no integer to parse: after leading white space and an
\* optional sign comes no digit, or 0x with no hexadecimal digit after it.
Unparsable(p) ==
    LET t == TrimStart(p)
        u == IF t # <<>> /\ Head(t) \in {"+", "-"} THEN Tail(t) ELSE t
    IN  \/ u = <<>>
        \/ ~IsDigit(u[1])
        \/ HasHexPrefix(u) /\ (Len(u) = 2 \/ ~IsHexDigit(u[3]))

\* C10: for every operation taking a path id, an id that fails integer
\* parsing is answered 404, never 500, and the store is unchanged.
C10_UnparsableIdNotFound ==
    Serving => \A p \in PathIds :
        Unparsable(p) =>
            /\ \A o \in {GetTodo(todos, p), DeleteTodo(todos, p), ToggleTodo(todos, p)} :
                   o.res.status = 404 /\ o.todos = todos
            /\ \A b \in Bodies :
                   \A o \in {PutTodo(todos, p, b), PatchTodo(todos, p, b)} :
                       o.res.status = 404 /\ o.todos = todos
            /\ \A b \in CompleteBodies :
                   CompleteTodo(todos, p, b).res.status = 404
                   /\ CompleteTodo(todos, p, b).todos = todos

\* C10 witness: an update, delete, toggle or complete request whose path id
\* parsed to NaN was answered 404.
C10_Witness ==
    /\ res.status = 404
    /\ res.message = "Todo not found"
    /\ res.id = NaN
    /\ res.ids = <<>>

\* C11: POST /todos/:id/toggle on a stored id negates that record's
\* completed flag and changes nothing else, and a second toggle of the same
\* id right after restores the store exactly.
C11_ToggleTwiceRestores ==
    Serving => \A p \in PathIds :
        \A hits \in {RecordsWithId(todos, ParseInt(Str(p)))},
           once \in {ToggleTodo(todos, p)} :
            hits # {} =>
                /\ once.res.status = 200
                /\ Len(once.todos) = Len(todos)
                /\ \A i \in 1..Len(todos) :
                       IF i \in hits
                       THEN /\ once.todos[i].completed = ~todos[i].completed
                            /\ once.todos[i].id = todos[i].id
                            /\ once.todos[i].title = todos[i].title
                            /\ once.todos[i].userId = todos[i].userId
                       ELSE once.todos[i] = todos[i]
                /\ ToggleTodo(once.todos, p).res.status = 200
                /\ ToggleTodo(once.todos, p).todos = todos

\* C11 witness: a toggle brought the seed store back by clearing the flag
\* that the request before it had set.
C11_Witness ==
    /\ nreq = 2
    /\ res.message = "Todo uncompleted"
    /\ todos = SeedTodos

\* C12: a request answered 500 carries the failure's message and leaves the
\* store exactly as it was before the request: no field of a record is
\* written and no record is appended.
C12_FailureLeavesStore ==
    [][res'.status = 500
           => /\ res'.message = "Internal Server Error"
              /\ res'.detail # ""
              /\ todos' = todos]_vars

\* C14: in every reachable state the ids of the store are numbers that
\* strictly increase along the store's order.
C14_IdsStrictlyIncreasing ==
    /\ \A i \in 1..Len(todos) : todos[i].id.t = "number"
    /\ \A i, j \in 1..Len(todos) : i < j => todos[i].id.n < todos[j].id.n

\* C14 witness: two records were created one after the other, each placed
\* after the records already stored.
C14_Witness ==
    /\ nreq = 2
    /\ res.message = "Todo created successfully"
    /\ Len(todos) = Len(SeedTodos) + 2
    /\ todos[Len(todos)].id.n > todos[Len(todos) - 1].id.n

\* C15: GET /todos, GET /todos/:id, GET /status, GET / and an unmatched
\* route leave the store as it is, whatever their inputs, and GET /status
\* reports as current_todos_count the number of records stored.
C15_ReadsLeaveStore ==
    Serving =>
        /\ \A q \in Queries : GetTodos(todos, q).todos = todos
        /\ \A p \in PathIds : GetTodo(todos, p).todos = todos
        /\ GetStatus(todos).todos = todos
        /\ GetStatus(todos).res.count = Len(todos)
        /\ GetRoot(todos).todos = todos
        /\ NotFoundHandler(todos).todos = todos

\* C15 witness: GET /status answered with the count of a store whose size an
\* earlier request had changed.
C15_Witness ==
    /\ nreq = 2
    /\ res.message = "online"
    /\ res.count = Len(todos)
    /\ Len(todos) # Len(SeedTodos)

\* The store after request r is served to completion on store s.
ServedAlone(s, r) ==
    IF r.op = "DELETE" THEN DeleteTodo(s, r.p).todos ELSE PutTodo(s, r.p, r.body).todos

\* The stores that serving the requests of B one at a time, in any order,
\* can leave, starting from store s.
RECURSIVE SerialStores(_, _)
SerialStores(s, B) ==
    IF B = {}
    THEN {s}
    ELSE UNION {SerialStores(ServedAlone(s, r), B \ {r}) : r \in B}

\* At most one handler is between its lookup and its write, the index it
\* holds is still the place of the record with the id it looked up, and
\* once every request that arrived has been answered the store is one that
\* some serial order of them leaves.
AtomicHandlers ==
    /\ Cardinality(inflight) <= 1
    /\ \A h \in inflight :
           /\ h.todoIndex \in 1..Len(todos)
           /\ todos[h.todoIndex].id = ParseInt(Str(h.req.p))
    /\ (pending = {} /\ inflight = {}) => todos \in SerialStores(SeedTodos, batch)

\* The write of a handler leaves every record with another id than the one
\* it looked up as it was, in place and in content.
WritesOwnRecord ==
    \A h \in inflight \ inflight' :
        Without(todos', ParseInt(Str(h.req.p))) = Without(todos, ParseInt(Str(h.req.p)))

\* C13: for requests arriving concurrently, each handler's lookup-then-write
\* runs without another handler's step in between, the final store is the
\* result of serving the requests one at a time in some order, and a PUT or
\* DELETE never writes to or removes a record other than the one whose id it
\* looked up.
C13_RequestsAtomic == []AtomicHandlers /\ [][WritesOwnRecord]_vars

\* C13 witness: a DELETE and a PUT that arrived together have both been
\* answered, one record is gone and another carries the title of the PUT.
C13_Witness ==
    /\ pending = {}
    /\ inflight = {}
    /\ nreq = 2
    /\ \E d, u \in batch : d.op = "DELETE" /\ u.op = "PUT"
    /\ Len(todos) = Len(SeedTodos) - 1
    /\ \E i \in 1..Len(todos) : todos[i].title = <<"x">>

====
